---- MODULE Spec2Model ----
(***************************************************************************)
(* Notification dispatch and delivery: the API gateway's submission path   *)
(* (idempotency check, publish, Redis records), the RabbitMQ channel       *)
(* queues, the email and push workers, and the circuit breaker each worker *)
(* holds.                                                                  *)
(***************************************************************************)
EXTENDS Integers, Sequences, FiniteSets, TLC

\* ---------------------------------------------------------------- constants
failure_threshold == 5
recovery_timeout == 60
success_threshold == 2
MAX_RETRIES == 5
WORKER_PREFETCH_COUNT == 10

\* last_failure_time = None
NoTime == -1

\* ------------------------------------------------------------------- bounds
\* the clock advances at most MaxTicks times (MaxPipelineTicks with two messages
\* in the pipeline); failure_count is not counted past MaxFailureCount; the sink
\* fails at most MaxFails times for one notification (MaxPairFails each with two)
MaxTicks == 5
MaxPipelineTicks == 1
MaxFailureCount == 7
MaxFails == 6
MaxPairFails == 3

\* NReq submissions are made, with idempotency keys among Keys
NReq == 2

\* NUpd status update calls are followed through their two steps
NUpd == 2
\* how many times a worker process dies
MaxCrashes == 1
\* how many messages that are not JSON reach a channel queue
MaxRaw == 1

Channels == {"email", "push"}
Keys == {"k1", "k2"}
Reqs == 1..NReq
\* str(uuid4()): the r-th submission's default request_id, never repeated
uuid4(r) == IF r = 1 THEN "uuid1" ELSE IF r = 2 THEN "uuid2" ELSE "uuid3"
\* the keys request_id:<key> of Redis: those the callers choose, the defaults
\* and "None", which a null request_id is formatted as
AllKeys == Keys \cup {uuid4(r) : r \in Reqs} \cup {"None"}
\* notification ids: uuid4 never repeats, so the i-th id minted is i; Unminted is
\* an id no submission ever mints
Unminted == 0
Ids == 1..NReq
AllIds == Ids \cup {Unminted}
Statuses == {"pending", "processing", "delivered", "failed"}
Updaters == 1..NUpd

VARIABLES
    now,          \* time.time(), in seconds
    ticks,        \* how many times the clock has advanced
    cb,           \* the CircuitBreaker of each channel's worker
    last_call,    \* history: the latest circuit breaker call and what it returned
    fail_run,     \* history: record_failure calls since the latest record_success
    reopened_at,  \* history: when record_failure was last called in HALF_OPEN
    opened_at,    \* history: when the failure was recorded that opened the breaker
    succ_run,     \* history: record_success calls in HALF_OPEN since it was entered
    req,          \* the create_notification calls: position, request, response
    next_id,      \* the next notification id uuid4 yields
    redis_request,\* Redis request_id:<key> -> notification id (0: no such key)
    redis_status, \* Redis notification:<id> -> status ("none": no such key)
    redis_updated_at, \* Redis notification:<id> -> updated_at (NoTime: not set)
    upd,          \* the update_notification_status calls that take two steps
    queue,        \* RabbitMQ email.queue and push.queue: the messages waiting
    gw_hist,      \* history of the gateway: what was published, answered, expired
    task,         \* the process_message call of each delivered message
    failed_queue, \* RabbitMQ failed.queue: the bodies published to it
    wk_hist,      \* history of the workers: attempts and their retry_count
    gone          \* history: the ids of the messages acknowledged or rejected
                  \* without requeue

cb_hist == <<last_call, fail_run, reopened_at, opened_at, succ_run>>
cb_vars == <<cb, cb_hist>>
clock_vars == <<now, ticks>>
gw_vars == <<req, next_id, redis_request, gw_hist>>
wk_vars == <<task, failed_queue, wk_hist, gone>>
\* Redis notification:<id>, and the status update calls that write it
redis_store == <<redis_status, redis_updated_at, upd>>
vars == <<clock_vars, cb_vars, gw_vars, redis_store, queue, wk_vars>>

Min(a, b) == IF a < b THEN a ELSE b

\* ---------------------------------------------------------- circuit breaker
\* push-service's CircuitBreaker; the email worker builds its breaker from the
\* class of the same name of its own package
CircuitBreaker ==
    [state |-> "closed", failure_count |-> 0, success_count |-> 0,
     last_failure_time |-> NoTime]

\* time.time() - self.last_failure_time raises TypeError on None
can_proceed_raises(b, t) == b.state = "open" /\ b.last_failure_time = NoTime

timeout_elapsed(b, t) == t - b.last_failure_time >= recovery_timeout

can_proceed_result(b, t) ==
    IF b.state = "closed" THEN TRUE
    ELSE IF b.state = "open" THEN timeout_elapsed(b, t)
    ELSE TRUE

can_proceed_state(b, t) ==
    IF b.state = "open" /\ ~can_proceed_raises(b, t) /\ timeout_elapsed(b, t)
    THEN [b EXCEPT !.state = "half_open", !.success_count = 0]
    ELSE b

\* record_success whose CLOSED branch is an elif of the HALF_OPEN branch, and
\* that closes the breaker without resetting failure_count
record_success_elif(b) ==
    IF b.state = "half_open"
    THEN LET b1 == [b EXCEPT !.success_count = @ + 1]
         IN  IF b1.success_count >= success_threshold
             THEN [b1 EXCEPT !.state = "closed"] ELSE b1
    ELSE IF b.state = "closed" THEN [b EXCEPT !.failure_count = 0] ELSE b

\* record_success that leaves failure_count alone in CLOSED
record_success_no_reset(b) ==
    LET b1 == IF b.state = "half_open"
              THEN [b EXCEPT !.success_count = @ + 1] ELSE b
    IN  IF b.state = "half_open" /\ b1.success_count >= success_threshold
        THEN [b1 EXCEPT !.state = "closed", !.failure_count = 0] ELSE b1

\* record_success that closes the breaker on the first success in HALF_OPEN
record_success_first(b) ==
    LET b1 == IF b.state = "half_open"
              THEN [b EXCEPT !.success_count = @ + 1] ELSE b
        b2 == IF b.state = "half_open" /\ b1.success_count >= 1
              THEN [b1 EXCEPT !.state = "closed", !.failure_count = 0] ELSE b1
    IN  IF b2.state = "closed" THEN [b2 EXCEPT !.failure_count = 0] ELSE b2

record_success(b) ==
    LET b1 == IF b.state = "half_open"
              THEN [b EXCEPT !.success_count = @ + 1] ELSE b
        b2 == IF b.state = "half_open" /\ b1.success_count >= success_threshold
              THEN [b1 EXCEPT !.state = "closed", !.failure_count = 0] ELSE b1
    IN  IF b2.state = "closed" THEN [b2 EXCEPT !.failure_count = 0] ELSE b2

\* record_failure that does not stamp last_failure_time
record_failure_no_time(b, t) ==
    LET b1 == [b EXCEPT !.failure_count = @ + 1]
        b2 == IF b1.state = "half_open" THEN [b1 EXCEPT !.state = "open"] ELSE b1
    IN  IF b2.failure_count >= failure_threshold
        THEN [b2 EXCEPT !.state = "open"] ELSE b2

\* record_failure comparing with > instead of >=
record_failure_gt(b, t) ==
    LET b1 == [b EXCEPT !.failure_count = @ + 1, !.last_failure_time = t]
        b2 == IF b1.state = "half_open" THEN [b1 EXCEPT !.state = "open"] ELSE b1
    IN  IF b2.failure_count > failure_threshold
        THEN [b2 EXCEPT !.state = "open"] ELSE b2

\* record_failure that sets last_failure_time only on the first failure
record_failure_keeps_time(b, t) ==
    LET b1 == [b EXCEPT !.failure_count = @ + 1,
                        !.last_failure_time = IF @ = NoTime THEN t ELSE @]
        b2 == IF b1.state = "half_open" THEN [b1 EXCEPT !.state = "open"] ELSE b1
    IN  IF b2.failure_count >= failure_threshold
        THEN [b2 EXCEPT !.state = "open"] ELSE b2

record_failure(b, t) ==
    LET b1 == [b EXCEPT !.failure_count = @ + 1, !.last_failure_time = t]
        b2 == IF b1.state = "half_open" THEN [b1 EXCEPT !.state = "open"] ELSE b1
    IN  IF b2.failure_count >= failure_threshold
        THEN [b2 EXCEPT !.state = "open"] ELSE b2

\* the history of breaker calls
NoCall == [ch |-> "email", op |-> "none", ret |-> "None", at |-> 0,
           pre |-> CircuitBreaker]

Logged(ch, op, ret) == [ch |-> ch, op |-> op, ret |-> ret, at |-> now, pre |-> cb[ch]]

RetOf(b, t) ==
    IF can_proceed_raises(b, t) THEN "TypeError"
    ELSE IF can_proceed_result(b, t) THEN "True" ELSE "False"

\* the three calls as a worker makes them
DoCanProceed(ch) == cb' = [cb EXCEPT ![ch] = can_proceed_state(cb[ch], now)]

DoRecordSuccess(ch) == cb' = [cb EXCEPT ![ch] = record_success(cb[ch])]

\* record_failure on one breaker that both workers share
DoRecordFailure_shared(ch) ==
    /\ cb[ch].failure_count < MaxFailureCount
    /\ cb' = [c \in Channels |-> record_failure(cb[c], now)]

DoRecordFailure(ch) ==
    /\ cb[ch].failure_count < MaxFailureCount
    /\ cb' = [cb EXCEPT ![ch] = record_failure(cb[ch], now)]

rest_of_cb == <<clock_vars, gw_vars, redis_store, queue, wk_vars>>

\* the three calls made in any order by a caller of the breaker of channel ch,
\* with the history of what was called and returned
CallCanProceed(ch) ==
    /\ DoCanProceed(ch)
    /\ last_call' = Logged(ch, "can_proceed", RetOf(cb[ch], now))
    /\ succ_run' = [succ_run EXCEPT
                       ![ch] = IF cb[ch].state = "open" /\ RetOf(cb[ch], now) = "True"
                               THEN 0 ELSE @]
    /\ UNCHANGED <<fail_run, reopened_at, opened_at, rest_of_cb>>

CallRecordSuccess(ch) ==
    /\ DoRecordSuccess(ch)
    /\ last_call' = Logged(ch, "record_success", "None")
    /\ fail_run' = [fail_run EXCEPT ![ch] = 0]
    /\ succ_run' = [succ_run EXCEPT
                       ![ch] = IF cb[ch].state = "half_open" THEN @ + 1 ELSE @]
    /\ UNCHANGED <<reopened_at, opened_at, rest_of_cb>>

CallRecordFailure(ch) ==
    /\ DoRecordFailure(ch)
    /\ last_call' = Logged(ch, "record_failure", "None")
    /\ fail_run' = [fail_run EXCEPT ![ch] = Min(@ + 1, failure_threshold)]
    /\ reopened_at' = [reopened_at EXCEPT
                          ![ch] = IF cb[ch].state = "half_open" THEN now ELSE @]
    /\ opened_at' = [opened_at EXCEPT
                        ![ch] = IF cb[ch].state # "open" /\ cb'[ch].state = "open"
                                THEN now ELSE @]
    /\ succ_run' = [succ_run EXCEPT ![ch] = 0]
    /\ UNCHANGED rest_of_cb

\* d seconds pass; the clock advances at most max times
Tick(d, max) ==
    /\ ticks < max
    /\ now' = now + d
    /\ ticks' = ticks + 1
    /\ UNCHANGED <<cb_vars, gw_vars, redis_store, queue, wk_vars>>

\* ------------------------------------------------------------------ gateway
NoRequest ==
    [pc |-> "idle", key |-> "k1", type |-> "email", priority |-> 5,
     nid |-> 0, ret |-> "none", status |-> "none", reply |-> "none"]

InFlight(r) == req[r].pc \notin {"idle", "done"}

Responded(r, ret, nid) ==
    [req EXCEPT ![r].pc = "done", ![r].ret = ret, ![r].nid = nid,
                ![r].status = IF ret = "queued" THEN "pending" ELSE "none"]

\* check_request_id that never finds the key
check_request_id_miss(k) == 0

\* QueueService.check_request_id: the cached notification id, 0 for None
check_request_id(k) == redis_request[k]

\* the body queue_notification builds
message_body(r, nid) ==
    [notification_id |-> nid, notification_type |-> req[r].type,
     request_id |-> req[r].key, priority |-> req[r].priority, retry_count |-> 0,
     json |-> TRUE]

\* exchange.publish with routing key <type>.queue: the message joins the queue
publish(q, m) == [q EXCEPT ![m.notification_type] = Append(@, m)]

\* NotificationRequest.request_id as the gateway uses it in the Redis key
\* f"request_id:{request_id}": the string sent; the default_factory's
\* str(uuid4()) when the field is omitted; None, formatted "None", when null is
\* sent (the default is not applied to a value that is given)
request_id(sent, r) ==
    IF sent = "omitted" THEN uuid4(r) ELSE IF sent = "null" THEN "None" ELSE sent

\* existing.get("status", "pending") of the request_id record, which
\* queue_notification stores with the status "pending"
existing_status(k) == IF redis_request[k] # 0 THEN "pending" ELSE "none"

\* create_notification that writes the pending status record anew on a duplicate
Submit_rewrites(r, k, t, p) ==
    /\ req[r].pc = "idle"
    /\ \A o \in Reqs : o < r => req[o].pc # "idle"
    /\ LET existing == check_request_id(k)
           rq == [NoRequest EXCEPT !.key = k, !.type = t, !.priority = p]
       IN  /\ req' = IF existing # 0
                     THEN [req EXCEPT ![r] = [rq EXCEPT !.pc = "done",
                                                        !.ret = "duplicate",
                                                        !.nid = existing,
                                                        !.status = existing_status(k)]]
                     ELSE [req EXCEPT ![r] = [rq EXCEPT !.pc = "get_user"]]
           /\ redis_status' = IF existing # 0
                              THEN [redis_status EXCEPT ![existing] = "pending"]
                              ELSE redis_status
           /\ gw_hist' = [gw_hist EXCEPT
                  !.overlap[k] = @ \/ \E o \in Reqs : InFlight(o) /\ req[o].key = k,
                  !.answered[k] = IF existing # 0 THEN @ \cup {existing} ELSE @]
    /\ UNCHANGED <<next_id, redis_request, redis_updated_at, upd, queue,
                   clock_vars, cb_vars, wk_vars>>

\* create_notification up to its first reply or its user lookup: the
\* idempotency check. A recorded key is answered at once with the id and the
\* status of the request_id record. The calls take the slots of req in order.
Submit(r, k, t, p) ==
    /\ req[r].pc = "idle"
    /\ \A o \in Reqs : o < r => req[o].pc # "idle"
    /\ LET existing == check_request_id(k)
           rq == [NoRequest EXCEPT !.key = k, !.type = t, !.priority = p]
       IN  /\ req' = IF existing # 0
                     THEN [req EXCEPT ![r] = [rq EXCEPT !.pc = "done",
                                                        !.ret = "duplicate",
                                                        !.nid = existing,
                                                        !.status = existing_status(k)]]
                     ELSE [req EXCEPT ![r] = [rq EXCEPT !.pc = "get_user"]]
           /\ gw_hist' = [gw_hist EXCEPT
                  !.overlap[k] = @ \/ \E o \in Reqs : InFlight(o) /\ req[o].key = k,
                  !.answered[k] = IF existing # 0 THEN @ \cup {existing} ELSE @]
    /\ UNCHANGED <<next_id, redis_request, redis_store, queue, clock_vars,
                   cb_vars, wk_vars>>

\* what the user service answers to GET /api/v1/users/<id>
UserReplies == {"ok", "disabled", "absent", "timeout", "5xx"}

\* UserService.get_user: the user's data, None when the reply is not a success
\* with data and None when the request raised
get_user(u) == IF u \in {"ok", "disabled"} THEN u ELSE "None"

\* create_notification that checks the preferences after queue_notification
GetUser_prefs_late(r, u) ==
    /\ req[r].pc = "get_user"
    /\ req' = IF u = "absent" THEN Responded(r, "404", 0)
              ELSE IF u = "disabled" THEN Responded(r, "disabled", 0)
              ELSE [req EXCEPT ![r].pc = "publish"]
    /\ next_id' = IF u = "disabled" THEN next_id + 1 ELSE next_id
    /\ queue' = IF u = "disabled" THEN publish(queue, message_body(r, next_id))
                ELSE queue
    /\ UNCHANGED <<redis_request, redis_store, gw_hist, clock_vars, cb_vars,
                   wk_vars>>

\* create_notification that stores the request_id before it looks the user up
GetUser_lookup_late(r, u) ==
    /\ req[r].pc = "get_user"
    /\ req' = IF u = "absent" THEN Responded(r, "404", 0)
              ELSE IF u = "disabled" THEN Responded(r, "disabled", 0)
              ELSE [req EXCEPT ![r].pc = "publish"]
    /\ redis_request' = IF u = "absent"
                        THEN [redis_request EXCEPT ![req[r].key] = next_id]
                        ELSE redis_request
    /\ UNCHANGED <<next_id, redis_store, queue, gw_hist, clock_vars, cb_vars,
                   wk_vars>>

\* user_service.get_user and the preference check; u is what the user service
\* answers: the user, a user who disabled the channel, no such user, or no
\* usable answer (a timeout, a 5xx reply); the submission keeps it in reply
GetUser(r, u) ==
    /\ req[r].pc = "get_user"
    /\ LET user == get_user(u)
           after == IF user = "None" THEN Responded(r, "404", 0)
                    ELSE IF user = "disabled" THEN Responded(r, "disabled", 0)
                    ELSE [req EXCEPT ![r].pc = "publish"]
       IN  req' = [after EXCEPT ![r].reply = u]
    /\ UNCHANGED <<next_id, redis_request, redis_store, queue, gw_hist,
                   clock_vars, cb_vars, wk_vars>>

\* queue_notification that stores request_id:<key> before it publishes
Publish_stores_first(r, ok) ==
    /\ req[r].pc = "publish"
    /\ next_id' = next_id + 1
    /\ redis_request' = [redis_request EXCEPT ![req[r].key] = next_id]
    /\ IF ok
       THEN /\ queue' = publish(queue, message_body(r, next_id))
            /\ req' = [req EXCEPT ![r].pc = "setex_request", ![r].nid = next_id]
            /\ gw_hist' = [gw_hist EXCEPT
                   !.published[req[r].key] = @ + 1,
                   !.late_published[req[r].key] =
                       @ \/ gw_hist.answered[req[r].key] # {}]
       ELSE /\ req' = Responded(r, "500", 0)
            /\ UNCHANGED <<queue, gw_hist>>
    /\ UNCHANGED <<redis_store, clock_vars, cb_vars, wk_vars>>

\* queue_notification up to exchange.publish: the id is minted and the message
\* published; ok is whether the broker took it
Publish(r, ok) ==
    /\ req[r].pc = "publish"
    /\ next_id' = next_id + 1
    /\ IF ok
       THEN /\ queue' = publish(queue, message_body(r, next_id))
            /\ req' = [req EXCEPT ![r].pc = "setex_request", ![r].nid = next_id]
            /\ gw_hist' = [gw_hist EXCEPT
                   !.published[req[r].key] = @ + 1,
                   !.late_published[req[r].key] =
                       @ \/ gw_hist.answered[req[r].key] # {}]
       ELSE /\ req' = Responded(r, "500", 0)
            /\ UNCHANGED <<queue, gw_hist>>
    /\ UNCHANGED <<redis_request, redis_store, clock_vars, cb_vars, wk_vars>>

\* queue_notification that logs a failing setex request_id:<key> and goes on
SetexRequest_swallows(r, ok) ==
    /\ req[r].pc = "setex_request"
    /\ req' = [req EXCEPT ![r].pc = "setex_status"]
    /\ IF ok
       THEN /\ redis_request' = [redis_request EXCEPT ![req[r].key] = req[r].nid]
            /\ gw_hist' = [gw_hist EXCEPT !.mapped[req[r].nid] = TRUE]
       ELSE UNCHANGED <<redis_request, gw_hist>>
    /\ UNCHANGED <<next_id, redis_store, queue, clock_vars, cb_vars, wk_vars>>

\* redis setex request_id:<key>
SetexRequest(r, ok) ==
    /\ req[r].pc = "setex_request"
    /\ IF ok
       THEN /\ redis_request' = [redis_request EXCEPT ![req[r].key] = req[r].nid]
            /\ req' = [req EXCEPT ![r].pc = "setex_status"]
            /\ gw_hist' = [gw_hist EXCEPT !.mapped[req[r].nid] = TRUE]
       ELSE /\ req' = Responded(r, "500", 0)
            /\ UNCHANGED <<redis_request, gw_hist>>
    /\ UNCHANGED <<next_id, redis_store, queue, clock_vars, cb_vars, wk_vars>>

\* what a write of status s leaves in gw_hist for notification id n
Stored(h, n, s, by) ==
    [h EXCEPT !.first_status[n] = IF redis_status[n] = "none" THEN s ELSE @,
              !.created_by[n] = IF redis_status[n] = "none" THEN by ELSE @]

\* redis setex notification:<id>, and the reply of create_notification
SetexStatus(r, ok) ==
    /\ req[r].pc = "setex_status"
    /\ IF ok
       THEN /\ redis_status' = [redis_status EXCEPT ![req[r].nid] = "pending"]
            /\ redis_updated_at' = [redis_updated_at EXCEPT ![req[r].nid] = NoTime]
            /\ UNCHANGED upd
            /\ req' = Responded(r, "queued", req[r].nid)
            /\ gw_hist' = [Stored(gw_hist, req[r].nid, "pending", "submit") EXCEPT
                              !.answered[req[r].key] = @ \cup {req[r].nid}]
       ELSE /\ req' = Responded(r, "500", 0)
            /\ UNCHANGED <<redis_store, gw_hist>>
    /\ UNCHANGED <<next_id, redis_request, queue, clock_vars, cb_vars, wk_vars>>

\* update_notification_status that answers an unknown id without storing
update_notification_status_known(st, n, s) ==
    IF st[n] = "none" THEN st ELSE [st EXCEPT ![n] = s]

\* QueueService.update_notification_status: the record is created when there is
\* none, and its status overwritten
update_notification_status(st, n, s) == [st EXCEPT ![n] = s]

\* QueueService.get_notification_status: "none" for None (NotFound)
get_notification_status(n) == redis_status[n]

\* a caller of POST /notifications/{id}/status or /{preference}/status/
UpdateStatus(n, s) ==
    /\ redis_status' = update_notification_status(redis_status, n, s)
    /\ redis_updated_at' = [redis_updated_at EXCEPT ![n] = now]
    /\ gw_hist' = Stored(gw_hist, n, s, "update")
    /\ UNCHANGED upd
    /\ UNCHANGED <<req, next_id, redis_request, queue, clock_vars, cb_vars,
                   wk_vars>>

\* update_notification_status in the two steps its awaits make of it. First the
\* record is read and the new one built, stamped with updated_at = utcnow(); the
\* calls take the slots of upd in order.
NoUpdate == [pc |-> "idle", id |-> Unminted, status |-> "pending", updated_at |-> NoTime]

StampUpdate(u, n, s) ==
    /\ upd[u].pc = "idle"
    /\ \A o \in Updaters : o < u => upd[o].pc # "idle"
    /\ upd' = [upd EXCEPT ![u] = [pc |-> "setex", id |-> n, status |-> s,
                                  updated_at |-> now]]
    /\ UNCHANGED <<redis_status, redis_updated_at, gw_vars, queue, clock_vars,
                   cb_vars, wk_vars>>

\* then redis setex notification:<id> stores the record that was built
LandUpdate(u) ==
    /\ upd[u].pc = "setex"
    /\ LET n == upd[u].id
       IN  /\ redis_status' = update_notification_status(redis_status, n,
                                                         upd[u].status)
           /\ redis_updated_at' = [redis_updated_at EXCEPT ![n] = upd[u].updated_at]
           /\ gw_hist' = Stored(gw_hist, n, upd[u].status, "update")
    /\ upd' = [upd EXCEPT ![u].pc = "done"]
    /\ UNCHANGED <<req, next_id, redis_request, queue, clock_vars, cb_vars,
                   wk_vars>>

\* the 24 hours of request_id:<key> are over
ExpireRequestId(k) ==
    /\ redis_request[k] # 0
    /\ redis_request' = [redis_request EXCEPT ![k] = 0]
    /\ gw_hist' = [gw_hist EXCEPT !.expired[k] = TRUE]
    /\ UNCHANGED <<req, next_id, redis_store, queue, clock_vars, cb_vars,
                   wk_vars>>

\* -------------------------------------------------------------------- Init
\* json: whether json.loads can decode the body
NoMessage ==
    [notification_id |-> 0, notification_type |-> "email", request_id |-> "k1",
     priority |-> 5, retry_count |-> 0, json |-> TRUE]

\* gate: the state the breaker was in when can_proceed admitted the message
\* rendered: what fetch_and_render_template returned, the template's rendering
\* or the default one; wait: the seconds of the backoff sleep
NoTask ==
    [pc |-> "none", message |-> NoMessage, body |-> NoMessage, gate |-> "none",
     rendered |-> "none", wait |-> 0]


\* ------------------------------------------------------------------ workers
ChannelOf(n) == task[n].message.notification_type

\* the messages of channel ch delivered and not yet acknowledged or rejected
Unacked(ch) == {n \in Ids : task[n].pc # "none" /\ ChannelOf(n) = ch}

\* a queue declared without x-max-priority: the oldest message goes first
NextIndex_fifo(q) == 1

\* x-max-priority: the broker hands out the oldest message of the highest
\* priority present
NextIndex(q) ==
    CHOOSE i \in 1..Len(q) :
        /\ \A j \in 1..Len(q) : q[j].priority <= q[i].priority
        /\ \A j \in 1..(i - 1) : q[j].priority < q[i].priority

Remove(q, i) == SubSeq(q, 1, i - 1) \o SubSeq(q, i + 1, Len(q))

\* message.reject(requeue=True): the broker puts the message it delivered, t's
\* message and not the body the worker changed, back at the head of the queue
requeue(q, t) == [q EXCEPT ![t.message.notification_type] = <<t.message>> \o @]

\* the worker's update_status: a POST to the gateway's status endpoint, whose
\* failure is logged and swallowed
update_status(n, s, ok) ==
    /\ redis_status' = IF ok THEN update_notification_status(redis_status, n, s)
                       ELSE redis_status
    /\ redis_updated_at' = IF ok THEN [redis_updated_at EXCEPT ![n] = now]
                           ELSE redis_updated_at
    /\ UNCHANGED upd
    /\ gw_hist' = IF ok THEN Stored(gw_hist, n, s, "update") ELSE gw_hist

\* asyncio.sleep(2 ** retry_count)
backoff(retry_count) == 2 ^ retry_count

\* the except block of process_message after record_failure, up to its first
\* await: the retry decision on the retry_count of the body
except_block(t) ==
    IF t.body.retry_count >= MAX_RETRIES
    THEN [t EXCEPT !.pc = IF t.message.notification_type = "email"
                          THEN "update_failed" ELSE "move_to_dlq"]
    ELSE [t EXCEPT !.body.retry_count = @ + 1, !.pc = "backoff",
                   !.wait = backoff(t.body.retry_count)]

\* the arguments email.queue and push.queue are declared with
queue_arguments ==
    [x_max_priority |-> 10, x_message_ttl |-> 86400000, x_max_length |-> 100000]

\* x-message-ttl: the i-th waiting message of channel ch has been in the queue
\* for x_message_ttl milliseconds and the broker takes it out; it is dead-lettered
\* when the queue names a dead-letter exchange, and dropped when it names none
ExpireMessage(ch, i) ==
    /\ i \in 1..Len(queue[ch])
    /\ queue' = [queue EXCEPT ![ch] = Remove(@, i)]
    /\ failed_queue' = IF "x_dead_letter_exchange" \in DOMAIN queue_arguments
                       THEN Append(failed_queue, queue[ch][i])
                       ELSE failed_queue
    /\ UNCHANGED <<task, wk_hist, gone, gw_vars, redis_store, cb_vars,
                   clock_vars>>

\* a message whose body is not JSON, put in the queue of channel ch by another
\* publisher
RawMessage(ch) ==
    [NoMessage EXCEPT !.notification_type = ch, !.json = FALSE]

PublishRaw(ch, max) ==
    /\ wk_hist.raw < max
    /\ queue' = publish(queue, RawMessage(ch))
    /\ wk_hist' = [wk_hist EXCEPT !.raw = @ + 1]
    /\ UNCHANGED <<task, failed_queue, gone, gw_vars, redis_store, cb_vars,
                   clock_vars>>

\* queue.consume: the broker delivers a message and process_message starts.
\* When json.loads raises, the except block calls record_failure and then reads
\* body, which is unbound: the error leaves message.process(), which rejects
\* the message without requeue.
Deliver(ch) ==
    /\ queue[ch] # <<>>
    /\ Cardinality(Unacked(ch)) < WORKER_PREFETCH_COUNT
    /\ LET i == NextIndex(queue[ch])
           m == queue[ch][i]
       IN  /\ queue' = [queue EXCEPT ![ch] = Remove(@, i)]
           /\ IF m.json
              THEN /\ task' = [task EXCEPT ![m.notification_id] =
                         [pc |-> IF ch = "email" THEN "update_processing"
                                 ELSE "can_proceed",
                          message |-> m, body |-> m, gate |-> "none",
                          rendered |-> "none", wait |-> 0]]
                   /\ UNCHANGED <<wk_hist, gone, cb>>
              ELSE /\ DoRecordFailure(ch)
                   /\ gone' = gone \cup {m.notification_id}
                   /\ UNCHANGED <<task, wk_hist>>
    /\ UNCHANGED <<failed_queue, gw_vars, redis_store, cb_hist, clock_vars>>

\* EmailWorker: update_status(notification_id, "processing")
UpdateProcessing(n, ok) ==
    /\ task[n].pc = "update_processing"
    /\ update_status(n, "processing", ok)
    /\ task' = [task EXCEPT ![n].pc = "can_proceed"]
    /\ UNCHANGED <<req, next_id, redis_request, queue, failed_queue, wk_hist,
                   gone, cb_vars, clock_vars>>

\* a gate that charges the refused message a retry
Gate_burns_retry(n) ==
    /\ task[n].pc = "can_proceed"
    /\ LET ch == ChannelOf(n)
           ret == RetOf(cb[ch], now)
       IN  IF ret = "TypeError"
           THEN /\ DoRecordFailure(ch)
                /\ task' = [task EXCEPT ![n] = except_block(@)]
                /\ UNCHANGED <<queue, wk_hist>>
           ELSE /\ DoCanProceed(ch)
                /\ IF ret = "True"
                   THEN /\ task' = [task EXCEPT
                                ![n].pc = IF ch = "email" THEN "render" ELSE "send",
                                ![n].gate = can_proceed_state(cb[ch], now).state]
                        /\ UNCHANGED <<queue, wk_hist>>
                   ELSE /\ queue' = requeue(queue, [task[n] EXCEPT
                                                  !.message.retry_count = @ + 1])
                        /\ task' = [task EXCEPT ![n] = NoTask]
                        /\ wk_hist' = [wk_hist EXCEPT
                               !.last_rc[n] = task[n].message.retry_count,
                               !.last_failed[n] = FALSE]
    /\ UNCHANGED <<gw_vars, redis_store, failed_queue, gone, clock_vars, cb_hist>>

\* the circuit breaker gate. Refused: the message is rejected with requeue, and
\* what follows (sleep(5), and the ack of message.process() that raises
\* MessageProcessError on a processed message) changes nothing.
Gate(n) ==
    /\ task[n].pc = "can_proceed"
    /\ LET ch == ChannelOf(n)
           ret == RetOf(cb[ch], now)
       IN  IF ret = "TypeError"
           THEN /\ DoRecordFailure(ch)
                /\ task' = [task EXCEPT ![n] = except_block(@)]
                /\ UNCHANGED <<queue, wk_hist>>
           ELSE /\ DoCanProceed(ch)
                /\ IF ret = "True"
                   THEN /\ task' = [task EXCEPT
                                ![n].pc = IF ch = "email" THEN "render" ELSE "send",
                                ![n].gate = can_proceed_state(cb[ch], now).state]
                        /\ UNCHANGED <<queue, wk_hist>>
                   ELSE /\ queue' = requeue(queue, task[n])
                        /\ task' = [task EXCEPT ![n] = NoTask]
                        /\ wk_hist' = [wk_hist EXCEPT
                               !.last_rc[n] = task[n].message.retry_count,
                               !.last_failed[n] = FALSE]
    /\ UNCHANGED <<gw_vars, redis_store, failed_queue, gone, clock_vars, cb_hist>>

\* the outcomes of the template lookup: a 200 reply, another reply (the template
\* is missing), an exception (the template service is unreachable)
TemplateReplies == {"ok", "missing", "error"}

\* fetch_and_render_template that lets the failure of the lookup reach
\* process_message
Render_raises(n, tpl) ==
    /\ task[n].pc = "render"
    /\ IF tpl = "ok"
       THEN /\ task' = [task EXCEPT ![n].pc = "send", ![n].rendered = "template"]
            /\ UNCHANGED cb
       ELSE /\ DoRecordFailure(ChannelOf(n))
            /\ task' = [task EXCEPT ![n] = except_block(@)]
    /\ UNCHANGED <<gw_vars, redis_store, queue, failed_queue, wk_hist, gone,
                   cb_hist, clock_vars>>

\* EmailWorker.fetch_and_render_template: a missing template or a failing
\* template service yields the default rendering
Render(n, tpl) ==
    /\ task[n].pc = "render"
    /\ task' = [task EXCEPT ![n].pc = "send",
                            ![n].rendered = IF tpl = "ok" THEN "template"
                                            ELSE "default"]
    /\ UNCHANGED <<gw_vars, redis_store, queue, failed_queue, wk_hist, gone,
                   cb_vars, clock_vars>>

\* the sink accepts the message: record_success; the push worker leaves
\* message.process() here, which acknowledges
SendOk(n) ==
    /\ task[n].pc = "send"
    /\ DoRecordSuccess(ChannelOf(n))
    /\ task' = IF ChannelOf(n) = "email"
               THEN [task EXCEPT ![n].pc = "update_delivered"]
               ELSE [task EXCEPT ![n] = NoTask]
    /\ wk_hist' = [wk_hist EXCEPT !.sent[n] = @ + 1,
                                  !.rc_at_success[n] = task[n].message.retry_count]
    /\ gone' = IF ChannelOf(n) = "email" THEN gone ELSE gone \cup {n}
    /\ UNCHANGED <<gw_vars, redis_store, queue, failed_queue, clock_vars,
                   cb_hist>>

\* the sink raises: record_failure and the retry decision; the sink fails at
\* most max times for one notification
SendFails(n, max) ==
    /\ task[n].pc = "send"
    /\ wk_hist.fails[n] < max
    /\ DoRecordFailure(ChannelOf(n))
    /\ task' = [task EXCEPT ![n] = except_block(@)]
    /\ wk_hist' = [wk_hist EXCEPT !.fails[n] = @ + 1]
    /\ UNCHANGED gone
    /\ UNCHANGED <<gw_vars, redis_store, queue, failed_queue, clock_vars,
                   cb_hist>>

\* a worker for which a failed update_status(notification_id, "delivered") is a
\* failure of the message
UpdateDelivered_fatal(n, ok) ==
    /\ task[n].pc = "update_delivered"
    /\ update_status(n, "delivered", ok)
    /\ IF ok
       THEN task' = [task EXCEPT ![n] = NoTask] /\ UNCHANGED cb
       ELSE /\ DoRecordFailure(ChannelOf(n))
            /\ task' = [task EXCEPT ![n] = except_block(@)]
    /\ UNCHANGED <<req, next_id, redis_request, queue, failed_queue, wk_hist,
                   gone, cb_hist, clock_vars>>

\* EmailWorker: update_status(notification_id, "delivered"), then
\* message.process() acknowledges
UpdateDelivered(n, ok) ==
    /\ task[n].pc = "update_delivered"
    /\ update_status(n, "delivered", ok)
    /\ task' = [task EXCEPT ![n] = NoTask]
    /\ gone' = gone \cup {n}
    /\ UNCHANGED <<req, next_id, redis_request, queue, failed_queue, wk_hist,
                   cb_vars, clock_vars>>

\* the awaits of the except block, each one step: after the backoff sleep
\* message.reject(requeue=True); or, retries exhausted,
\* update_status(notification_id, "failed") (EmailWorker) and then move_to_dlq,
\* after which message.process() acknowledges, or rejects without requeue when
\* the publish to failed.queue raised
AfterFailure(n, ok) ==
    /\ task[n].pc \in {"backoff", "update_failed", "move_to_dlq"}
    /\ IF task[n].pc = "backoff"
       THEN /\ queue' = requeue(queue, task[n])
            /\ task' = [task EXCEPT ![n] = NoTask]
            /\ wk_hist' = [wk_hist EXCEPT
                   !.last_rc[n] = task[n].message.retry_count,
                   !.last_failed[n] = TRUE,
                   !.last_wait[n] = task[n].wait]
            /\ UNCHANGED <<redis_store, gw_hist, failed_queue, gone>>
       ELSE IF task[n].pc = "update_failed"
       THEN /\ update_status(n, "failed", ok)
            /\ task' = [task EXCEPT ![n].pc = "move_to_dlq"]
            /\ UNCHANGED <<queue, failed_queue, wk_hist, gone>>
       ELSE /\ failed_queue' = IF ok THEN Append(failed_queue, task[n].body)
                               ELSE failed_queue
            /\ task' = [task EXCEPT ![n] = NoTask]
            /\ gone' = gone \cup {n}
            /\ UNCHANGED <<redis_store, gw_hist, queue, wk_hist>>
    /\ UNCHANGED <<req, next_id, redis_request, cb_vars, clock_vars>>

\* the messages the worker of channel ch holds unacknowledged, oldest id first
unacked_messages(ch) ==
    LET ids == SelectSeq([i \in 1..NReq |-> i], LAMBDA i : i \in Unacked(ch))
    IN  [j \in 1..Len(ids) |-> task[ids[j]].message]

\* the worker process of channel ch dies while it holds messages and is started
\* again: its process_message tasks end where they are, the broker puts the
\* messages it had not acknowledged back in the queue, and the new process
\* builds its CircuitBreaker anew
Crash(ch, max) ==
    /\ wk_hist.crashes < max
    /\ Unacked(ch) # {}
    /\ queue' = [queue EXCEPT ![ch] = unacked_messages(ch) \o @]
    /\ task' = [n \in Ids |-> IF n \in Unacked(ch) THEN NoTask ELSE task[n]]
    /\ cb' = [cb EXCEPT ![ch] = CircuitBreaker]
    /\ wk_hist' = [wk_hist EXCEPT !.crashes = @ + 1]
    /\ UNCHANGED <<failed_queue, gone, gw_vars, redis_store, cb_hist, clock_vars>>

Init ==
    /\ now = 0
    /\ ticks = 0
    /\ cb = [ch \in Channels |-> CircuitBreaker]
    /\ last_call = NoCall
    /\ fail_run = [ch \in Channels |-> 0]
    /\ reopened_at = [ch \in Channels |-> NoTime]
    /\ opened_at = [ch \in Channels |-> NoTime]
    /\ succ_run = [ch \in Channels |-> 0]
    /\ req = [r \in Reqs |-> NoRequest]
    /\ next_id = 1
    /\ redis_request = [k \in AllKeys |-> 0]
    /\ redis_status = [n \in AllIds |-> "none"]
    /\ redis_updated_at = [n \in AllIds |-> NoTime]
    /\ upd = [u \in Updaters |-> NoUpdate]
    /\ queue = [ch \in Channels |-> <<>>]
    /\ gw_hist = [published |-> [k \in AllKeys |-> 0],
                  late_published |-> [k \in AllKeys |-> FALSE],
                  overlap |-> [k \in AllKeys |-> FALSE],
                  expired |-> [k \in AllKeys |-> FALSE],
                  answered |-> [k \in AllKeys |-> {}],
                  first_status |-> [n \in AllIds |-> "none"],
                  created_by |-> [n \in AllIds |-> "none"],
                  mapped |-> [n \in AllIds |-> FALSE]]
    /\ task = [n \in Ids |-> NoTask]
    /\ failed_queue = <<>>
    /\ wk_hist = [fails |-> [n \in Ids |-> 0],
                  sent |-> [n \in Ids |-> 0],
                  rc_at_success |-> [n \in Ids |-> 0],
                  last_rc |-> [n \in Ids |-> 0],
                  last_failed |-> [n \in Ids |-> FALSE],
                  last_wait |-> [n \in Ids |-> 0],
                  crashes |-> 0,
                  raw |-> 0]
    /\ gone = {}

\* ---------------------------------------------------------- specifications
\* the circuit breaker of one worker, called in any order, as time passes
NextCB ==
    \/ CallCanProceed("push")
    \/ CallRecordSuccess("push")
    \/ CallRecordFailure("push")
    \/ \E d \in {1, recovery_timeout - 1} : Tick(d, MaxTicks)

SpecCB == Init /\ [][NextCB]_vars

\* the breakers of the two workers, each called in any order, while the clock
\* advances by the recovery timeout
NextChannels ==
    \/ \E ch \in Channels : CallCanProceed(ch)
    \/ \E ch \in Channels : CallRecordSuccess(ch)
    \/ \E ch \in Channels : CallRecordFailure(ch)
    \/ Tick(recovery_timeout, MaxPipelineTicks)

SpecChannels == Init /\ [][NextChannels]_vars

\* the gateway alone: submissions that interleave, Redis and the broker failing,
\* and the expiry of idempotency keys
NextGW ==
    \/ \E r \in Reqs, k \in Keys, t \in Channels : Submit(r, k, t, 5)
    \/ \E r \in Reqs, u \in {"ok", "absent", "disabled"} : GetUser(r, u)
    \/ \E r \in Reqs, ok \in BOOLEAN : Publish(r, ok)
    \/ \E r \in Reqs, ok \in BOOLEAN : SetexRequest(r, ok)
    \/ \E r \in Reqs, ok \in BOOLEAN : SetexStatus(r, ok)
    \/ \E k \in Keys : ExpireRequestId(k)

SpecGW == Init /\ [][NextGW]_vars

\* the gateway with a user service that answers, times out or fails
NextLookup ==
    \/ \E r \in Reqs, k \in Keys, t \in Channels : Submit(r, k, t, 5)
    \/ \E r \in Reqs, u \in UserReplies : GetUser(r, u)
    \/ \E r \in Reqs : Publish(r, TRUE)
    \/ \E r \in Reqs : SetexRequest(r, TRUE)
    \/ \E r \in Reqs : SetexStatus(r, TRUE)

SpecLookup == Init /\ [][NextLookup]_vars

\* submissions that carry no request_id of the caller's: omitted, or null
NextNoKey ==
    \/ \E r \in Reqs, sent \in {"omitted", "null"}, t \in Channels :
           Submit(r, request_id(sent, r), t, 5)
    \/ \E r \in Reqs : GetUser(r, "ok")
    \/ \E r \in Reqs : Publish(r, TRUE)
    \/ \E r \in Reqs : SetexRequest(r, TRUE)
    \/ \E r \in Reqs : SetexStatus(r, TRUE)

SpecNoKey == Init /\ [][NextNoKey]_vars

\* the status store: one submission, and status update calls for its id and for
\* an id that was never minted
NextStatus ==
    \/ \E k \in Keys : Submit(1, k, "email", 5)
    \/ \E u \in {"ok", "absent", "disabled"} : GetUser(1, u)
    \/ \E ok \in BOOLEAN : Publish(1, ok)
    \/ \E ok \in BOOLEAN : SetexRequest(1, ok)
    \/ \E ok \in BOOLEAN : SetexStatus(1, ok)
    \/ \E n \in {Unminted, 1}, s \in Statuses : UpdateStatus(n, s)

SpecStatus == Init /\ [][NextStatus]_vars

\* submissions that repeat one idempotency key while the status of the
\* notification is updated
NextDuplicate ==
    \/ \E r \in Reqs : Submit(r, "k1", "email", 5)
    \/ \E r \in Reqs : GetUser(r, "ok")
    \/ \E r \in Reqs, ok \in BOOLEAN : Publish(r, ok)
    \/ \E r \in Reqs : SetexRequest(r, TRUE)
    \/ \E r \in Reqs : SetexStatus(r, TRUE)
    \/ \E n \in Ids, s \in Statuses : UpdateStatus(n, s)

SpecDuplicate == Init /\ [][NextDuplicate]_vars

\* the submissions of the pipeline carry distinct idempotency keys
KeyOf(r) == IF r = 1 THEN "k1" ELSE "k2"

\* the gateway, the broker and the workers, with rs the submissions made
Pipeline(rs) ==
    \/ \E r \in rs, t \in Channels : Submit(r, KeyOf(r), t, 5)
    \/ \E r \in rs : GetUser(r, "ok")
    \/ \E r \in rs : Publish(r, TRUE)
    \/ \E r \in rs : SetexRequest(r, TRUE)
    \/ \E r \in rs : SetexStatus(r, TRUE)
    \/ \E ch \in Channels : Deliver(ch)
    \/ \E n \in Ids, ok \in BOOLEAN : UpdateProcessing(n, ok)
    \/ \E n \in Ids : Gate(n)
    \/ \E n \in Ids : Render(n, "ok")
    \/ \E n \in Ids : SendOk(n)
    \/ \E n \in Ids, ok \in BOOLEAN : UpdateDelivered(n, ok)
    \/ \E n \in Ids, ok \in BOOLEAN : AfterFailure(n, ok)

\* the whole pipeline with every submission: both workers, their breakers, and
\* several messages in flight
Next ==
    \/ Pipeline(Reqs)
    \/ \E n \in Ids : SendFails(n, MaxPairFails)
    \/ Tick(recovery_timeout, MaxPipelineTicks)

Spec == Init /\ [][Next]_vars

\* the pipeline with one submission, whose send may fail past MAX_RETRIES
NextRetry ==
    \/ Pipeline({1})
    \/ SendFails(1, MaxFails)
    \/ Tick(recovery_timeout, MaxTicks)

SpecRetry == Init /\ [][NextRetry]_vars

\* priorities of the submissions where they differ (1..10 are accepted)
Priorities == {3, 9}

\* push submissions of different priorities, delivered by the push worker with
\* no failure
NextPriority ==
    \/ \E r \in Reqs, p \in Priorities : Submit(r, KeyOf(r), "push", p)
    \/ \E r \in Reqs : GetUser(r, "ok")
    \/ \E r \in Reqs : Publish(r, TRUE)
    \/ \E r \in Reqs : SetexRequest(r, TRUE)
    \/ \E r \in Reqs : SetexStatus(r, TRUE)
    \/ Deliver("push")
    \/ \E n \in Ids : Gate(n)
    \/ \E n \in Ids : SendOk(n)

SpecPriority == Init /\ [][NextPriority]_vars

\* the pipeline with one submission, whose message may expire while it waits
NextExpiry ==
    \/ NextRetry
    \/ \E ch \in Channels, i \in Reqs : ExpireMessage(ch, i)

SpecExpiry == Init /\ [][NextExpiry]_vars

\* the pipeline with one submission, whose worker may die and start again
NextCrash ==
    \/ NextRetry
    \/ \E ch \in Channels : Crash(ch, MaxCrashes)

SpecCrash == Init /\ [][NextCrash]_vars

\* the email worker with several messages in flight, whose sends may fail
NextEmail ==
    \/ \E r \in Reqs : Submit(r, KeyOf(r), "email", 5)
    \/ \E r \in Reqs : GetUser(r, "ok")
    \/ \E r \in Reqs : Publish(r, TRUE)
    \/ \E r \in Reqs : SetexRequest(r, TRUE)
    \/ \E r \in Reqs : SetexStatus(r, TRUE)
    \/ Deliver("email")
    \/ \E n \in Ids : UpdateProcessing(n, TRUE)
    \/ \E n \in Ids : Gate(n)
    \/ \E n \in Ids : Render(n, "ok")
    \/ \E n \in Ids : SendOk(n)
    \/ \E n \in Ids : SendFails(n, MaxPairFails)
    \/ \E n \in Ids : UpdateDelivered(n, TRUE)
    \/ \E n \in Ids : AfterFailure(n, TRUE)

SpecEmail == Init /\ [][NextEmail]_vars

\* the pipeline with one submission, and messages in the queues that are not
\* JSON
NextRaw ==
    \/ NextRetry
    \/ \E ch \in Channels : PublishRaw(ch, MaxRaw)

SpecRaw == Init /\ [][NextRaw]_vars

\* the pipeline with one submission, whose template lookup may fail
NextRender ==
    \/ NextRetry
    \/ \E tpl \in TemplateReplies : Render(1, tpl)

SpecRender == Init /\ [][NextRender]_vars

\* status updates for one notification id that overlap, as time passes
NextUpdates ==
    \/ \E u \in Updaters, s \in {"processing", "delivered"} : StampUpdate(u, 1, s)
    \/ \E u \in Updaters : LandUpdate(u)
    \/ Tick(1, MaxTicks)

SpecUpdates == Init /\ [][NextUpdates]_vars

\* ------------------------------------------------------------------- claims
\* C8: after failure_threshold consecutive record_failure calls the breaker is
\* OPEN, and every can_proceed call made less than recovery_timeout after the
\* last recorded failure returns false.
C8_OpenAfterThreshold ==
    LET ch == last_call.ch IN
    /\ (last_call.op = "record_failure" /\ fail_run[ch] >= failure_threshold)
          => cb[ch].state = "open"
    /\ (/\ last_call.op = "can_proceed"
        /\ fail_run[ch] >= failure_threshold
        /\ last_call.at - last_call.pre.last_failure_time < recovery_timeout)
          => (last_call.ret = "False" /\ cb[ch].state = "open")

\* the breaker opened at exactly failure_threshold failures, and a can_proceed
\* call one second before the timeout was refused
C8_Witness ==
    /\ last_call.op = "can_proceed"
    /\ fail_run[last_call.ch] >= failure_threshold
    /\ last_call.pre.failure_count = failure_threshold
    /\ last_call.at - last_call.pre.last_failure_time = recovery_timeout - 1
    /\ last_call.ret = "False"

\* C10: a record_failure call in HALF_OPEN moves the breaker to OPEN whatever
\* the counters are, and can_proceed then returns false until recovery_timeout
\* has elapsed since that failure.
C10_HalfOpenFailureReopens ==
    LET ch == last_call.ch IN
    /\ (last_call.op = "record_failure" /\ last_call.pre.state = "half_open")
          => (cb[ch].state = "open" /\ cb[ch].last_failure_time = last_call.at)
    /\ (/\ last_call.op = "can_proceed"
        /\ reopened_at[ch] # NoTime
        /\ last_call.at - reopened_at[ch] < recovery_timeout)
          => (last_call.ret = "False" /\ cb[ch].state = "open")

\* a failure in HALF_OPEN after one recorded success, and a can_proceed call one
\* second before the new timeout was refused
C10_Witness ==
    /\ last_call.op = "can_proceed"
    /\ reopened_at[last_call.ch] # NoTime
    /\ last_call.at - reopened_at[last_call.ch] = recovery_timeout - 1
    /\ last_call.pre.success_count = 1
    /\ last_call.ret = "False"

\* C1: sequential idempotency. For a key whose submissions did not overlap and
\* whose mapping has not expired, every submission that returned an id returned
\* the same one, and nothing was published for the key after the first id was
\* returned.
C1_SequentialIdempotency ==
    \A k \in Keys :
        (~gw_hist.overlap[k] /\ ~gw_hist.expired[k])
            => (/\ Cardinality(gw_hist.answered[k]) <= 1
                /\ ~gw_hist.late_published[k])

\* a submission was queued and a later one with the same key was answered as its
\* duplicate
C1_Witness ==
    \E r1, r2 \in Reqs :
        /\ req[r1].ret = "queued" /\ req[r2].ret = "duplicate"
        /\ req[r1].key = req[r2].key
        /\ req[r1].nid = req[r2].nid
        /\ ~gw_hist.overlap[req[r1].key] /\ ~gw_hist.expired[req[r1].key]
        /\ gw_hist.published[req[r1].key] = 1

\* C2: concurrent idempotency. Two submissions with the same key, interleaved or
\* not, that both return an id return the same id, and at most one of them
\* enqueued a message.
C2_ConcurrentIdempotency ==
    \A r1, r2 \in Reqs :
        (/\ r1 # r2
         /\ req[r1].key = req[r2].key
         /\ req[r1].ret \in {"queued", "duplicate"}
         /\ req[r2].ret \in {"queued", "duplicate"}
         /\ ~gw_hist.expired[req[r1].key])
            => (/\ req[r1].nid = req[r2].nid
                /\ ~(req[r1].ret = "queued" /\ req[r2].ret = "queued"))

\* C7 as stated: a status record exists only for an id a successful submit
\* returned, its first status is pending, and get_status of the id that was
\* never minted is NotFound.
C7_RecordOnlyForMinted ==
    /\ \A n \in AllIds :
          redis_status[n] # "none"
              => (/\ \E r \in Reqs : req[r].ret = "queued" /\ req[r].nid = n
                  /\ gw_hist.first_status[n] = "pending")
    /\ get_notification_status(Unminted) = "none"

\* C7 as amended: a status record exists only for an id that a submit or a
\* status update wrote; the record a submit creates starts as pending and belongs
\* to the id that submit returned; a status update for an id without a record,
\* the never-minted id included, creates the record, which get_status returns.
C7_RecordOrigin ==
    \A n \in AllIds :
        /\ redis_status[n] # "none" => gw_hist.created_by[n] \in {"submit", "update"}
        /\ gw_hist.created_by[n] = "submit"
              => (/\ gw_hist.first_status[n] = "pending"
                  /\ \E r \in Reqs : req[r].ret = "queued" /\ req[r].nid = n)
        /\ gw_hist.created_by[n] = "update"
              => (/\ get_notification_status(n) # "none"
                  /\ gw_hist.first_status[n] \in Statuses)

\* a submit created the record of its id, and a status update created a record
\* for the id that was never minted
C7_Witness ==
    /\ gw_hist.created_by[1] = "submit"
    /\ gw_hist.created_by[Unminted] = "update"
    /\ gw_hist.first_status[Unminted] = "delivered"
    /\ get_notification_status(Unminted) = "delivered"

\* C3: retry exhaustion. A notification whose send has failed more than
\* MAX_RETRIES times and never succeeded, and whose handler has finished, has its
\* message in failed.queue and not in its channel queue, and its status is failed.
C3_RetryExhaustion ==
    \A n \in Ids :
        (/\ wk_hist.fails[n] > MAX_RETRIES
         /\ wk_hist.sent[n] = 0
         /\ task[n].pc = "none")
            => (/\ \E i \in 1..Len(failed_queue) : failed_queue[i].notification_id = n
                /\ redis_status[n] = "failed"
                /\ \A ch \in Channels : \A i \in 1..Len(queue[ch]) :
                       queue[ch][i].notification_id # n)

\* C4: a send that succeeds after k failures, 0 < k < MAX_RETRIES, is made for a
\* message that carries retry_count = k, and the notification ends delivered.
C4_RetryCountAtSuccess ==
    \A n \in Ids :
        (/\ wk_hist.sent[n] > 0
         /\ wk_hist.fails[n] > 0
         /\ wk_hist.fails[n] < MAX_RETRIES)
            => (/\ wk_hist.rc_at_success[n] = wk_hist.fails[n]
                /\ task[n].pc = "none" => redis_status[n] = "delivered")

\* C5: the retry_count a message carries when it is delivered is not below the
\* one of its previous delivery, is one higher when the previous attempt failed,
\* and is at most MAX_RETRIES.
C5_RetryCountGrows ==
    \A n \in Ids :
        task[n].pc # "none"
            => (/\ task[n].message.retry_count >= wk_hist.last_rc[n]
                /\ wk_hist.last_failed[n]
                      => task[n].message.retry_count = wk_hist.last_rc[n] + 1
                /\ task[n].message.retry_count <= MAX_RETRIES)

\* C6: terminal statuses are absorbing: no step changes a stored status that is
\* delivered or failed.
C6_TerminalAbsorbing ==
    [][\A n \in AllIds :
          redis_status[n] \in {"delivered", "failed"}
              => redis_status'[n] = redis_status[n]]_vars

\* C9: one probe. Of the messages that the push worker's can_proceed admitted in
\* HALF_OPEN, at most one is waiting for its send outcome to be recorded.
C9_SingleProbe ==
    Cardinality({n \in Unacked("push") : /\ task[n].pc = "send"
                                         /\ task[n].gate = "half_open"}) <= 1

\* C11: a record_success call in HALF_OPEN leaves the breaker CLOSED exactly when
\* it is the success_threshold-th success recorded since HALF_OPEN was entered,
\* with no failure recorded between them, and HALF_OPEN otherwise; failure_count
\* is 0 on closing; no other call moves the breaker from HALF_OPEN to CLOSED.
C11_HalfOpenCloses ==
    LET ch == last_call.ch IN
    last_call.pre.state = "half_open"
        => (/\ last_call.op = "record_success"
               => (/\ cb[ch].state = "closed" <=> succ_run[ch] = success_threshold
                   /\ cb[ch].state \in {"closed", "half_open"}
                   /\ cb[ch].state = "closed" => cb[ch].failure_count = 0)
            /\ last_call.op # "record_success" => cb[ch].state # "closed")

\* the breaker, opened by failure_threshold failures, was closed by the second
\* success recorded in HALF_OPEN, and its failure_count went back to 0
C11_Witness ==
    /\ last_call.op = "record_success"
    /\ last_call.pre.state = "half_open"
    /\ last_call.pre.failure_count >= failure_threshold
    /\ succ_run[last_call.ch] = success_threshold
    /\ cb[last_call.ch].state = "closed"
    /\ cb[last_call.ch].failure_count = 0

\* C12: a submit that ends with the preference-disabled result, a reply that is
\* no HTTP error, carries no notification id, and none of its steps enqueues a
\* message, mints an id or writes a Redis record.
C12_PreferenceDisabled ==
    [][\A r \in Reqs :
          (/\ req[r].pc \in {"idle", "get_user"}
           /\ req'[r].pc = "done"
           /\ req'[r].ret = "disabled")
              => (/\ req'[r].nid = 0
                  /\ UNCHANGED <<queue, next_id, redis_request, redis_store>>)]_vars

\* a push submit was answered preference-disabled and the broker and Redis are
\* as they were at the start
C12_Witness ==
    \E r \in Reqs :
        /\ req[r].ret = "disabled" /\ req[r].type = "push" /\ req[r].nid = 0
        /\ next_id = 1
        /\ \A ch \in Channels : queue[ch] = <<>>
        /\ \A n \in AllIds : redis_status[n] = "none"
        /\ \A k \in Keys : redis_request[k] = 0

\* C13: a submit whose user lookup reports no user ends with 404 NotFound, and
\* its steps enqueue no message and write no request_id or status record.
C13_UserAbsent ==
    [][\A r \in Reqs :
          (/\ req[r].pc \in {"idle", "get_user"}
           /\ req'[r].pc = "done"
           /\ req'[r].ret = "404")
              => UNCHANGED <<queue, redis_request, redis_store>>]_vars

\* a submit was answered 404 and nothing is queued or stored
C13_Witness ==
    \E r \in Reqs :
        /\ req[r].ret = "404"
        /\ \A ch \in Channels : queue[ch] = <<>>
        /\ \A n \in AllIds : redis_status[n] = "none"
        /\ \A k \in Keys : redis_request[k] = 0

\* C14: when exchange.publish fails, submit answers with an error (500), and
\* neither request_id:<key> nor notification:<id> is written for the request:
\* the step writes nothing to Redis and the id it minted has no record.
C14_PublishFails ==
    [][\A r \in Reqs :
          (/\ req[r].pc = "publish"
           /\ req'[r].pc = "done")
              => (/\ req'[r].ret = "500"
                  /\ UNCHANGED <<redis_request, redis_store, queue>>
                  /\ redis_status'[next_id] = "none"
                  /\ \A k \in Keys : redis_request'[k] # next_id)]_vars

\* the first submit minted its id, the publish failed, it was answered 500, and
\* nothing is queued or stored
C14_Witness ==
    /\ req[1].ret = "500"
    /\ req[2].pc = "idle"
    /\ next_id = 2
    /\ \A ch \in Channels : queue[ch] = <<>>
    /\ \A n \in AllIds : redis_status[n] = "none"
    /\ \A k \in Keys : redis_request[k] = 0

\* C15: no partial durable state. When submit answers with an error because the
\* publish or a Redis write failed, no message of the call is left in a queue
\* and no request_id or status record of its id is stored; and for a key whose
\* submissions did not overlap, retried until one was queued, exactly one message
\* was enqueued.
C15_NoPartialState ==
    [][/\ \A r \in Reqs :
            (/\ req[r].pc \in {"publish", "setex_request", "setex_status"}
             /\ req'[r].pc = "done"
             /\ req'[r].ret = "500"
             /\ req[r].nid # 0)
                => (/\ \A i \in 1..Len(queue'[req[r].type]) :
                          queue'[req[r].type][i].notification_id # req[r].nid
                    /\ redis_request'[req[r].key] # req[r].nid
                    /\ redis_status'[req[r].nid] = "none")
       /\ \A k \in Keys :
            (/\ ~gw_hist'.overlap[k] /\ ~gw_hist'.expired[k]
             /\ \E r \in Reqs : req'[r].key = k /\ req'[r].ret = "queued")
                => gw_hist'.published[k] = 1]_vars

\* C16: when submit returns the id it minted, the message with that id has been
\* published to the queue of its channel, request_id:<key> -> id has been
\* written, and is what Redis holds unless another submission of the key
\* overlapped or the key expired, and notification:<id> holds status pending.
C16_WritesBeforeReturn ==
    [][\A r \in Reqs :
          (/\ req[r].pc # "done"
           /\ req'[r].pc = "done"
           /\ req'[r].ret = "queued")
              => LET n == req'[r].nid
                     k == req'[r].key
                     q == queue'[req'[r].type]
                 IN  /\ n \in Ids
                     /\ \E i \in 1..Len(q) :
                            q[i].notification_id = n /\ q[i].request_id = k
                     /\ gw_hist'.mapped[n]
                     /\ (~gw_hist'.overlap[k] /\ ~gw_hist'.expired[k])
                            => redis_request'[k] = n
                     /\ redis_status'[n] = "pending"]_vars

\* a push submit returned id 1: its message waits in push.queue, its key maps to
\* 1 and the status of 1 is pending
C16_Witness ==
    \E r \in Reqs :
        /\ req[r].ret = "queued" /\ req[r].nid = 1 /\ req[r].type = "push"
        /\ Len(queue["push"]) = 1 /\ queue["push"][1].notification_id = 1
        /\ redis_request[req[r].key] = 1
        /\ redis_status[1] = "pending"

\* C17: priority ordering. The message a worker is handed has, among the
\* messages that were waiting in its channel queue, the highest priority:
\* a priority-9 message enqueued after a priority-3 one is handed out first.
C17_PriorityOrder ==
    [][\A n \in Ids :
          (task[n].pc = "none" /\ task'[n].pc # "none")
              => LET m == task'[n].message
                     q == queue[m.notification_type]
                 IN  \A i \in 1..Len(q) : q[i].priority <= m.priority]_vars

\* the message with id 1 and priority 3 was published first and still waits in
\* push.queue, while the message with id 2 and priority 9, published after it,
\* has been handed to the worker
C17_Witness ==
    /\ Len(queue["push"]) = 1
    /\ queue["push"][1].notification_id = 1
    /\ queue["push"][1].priority = 3
    /\ task[1].pc = "none" /\ wk_hist.sent[1] = 0
    /\ task[2].pc # "none"
    /\ task[2].message.priority = 9
    /\ task[2].message.notification_type = "push"

\* C18: a message that leaves its channel queue without being handed to a
\* worker, which is what expiry does, is in failed.queue afterwards.
C18_ExpiredDeadLettered ==
    [][\A ch \in Channels : \A i \in 1..Len(queue[ch]) :
          LET m == queue[ch][i] IN
          (/\ \A j \in 1..Len(queue'[ch]) :
                  queue'[ch][j].notification_id # m.notification_id
           /\ task'[m.notification_id].pc = "none")
              => \E j \in 1..Len(failed_queue') :
                     failed_queue'[j].notification_id = m.notification_id]_vars

\* C19: on every channel, once the sink has accepted a notification's message
\* and the handler has finished (the message is acknowledged) while no submit
\* is in progress, the stored status of the notification is delivered.
C19_DeliveredOnSuccess ==
    \A n \in Ids :
        (/\ wk_hist.sent[n] > 0
         /\ task[n].pc = "none"
         /\ \A r \in Reqs : ~InFlight(r))
            => redis_status[n] = "delivered"

\* C20: a message whose can_proceed call returns false is put back in its queue
\* as it was delivered, retry_count included, its handler ends, no send is made
\* and the breaker is left as it was: no failure is recorded.
C20_GateRefusedFrame ==
    [][\A n \in Ids :
          (/\ task[n].pc = "can_proceed"
           /\ task'[n] # task[n]
           /\ RetOf(cb[ChannelOf(n)], now) = "False")
              => (/\ task'[n] = NoTask
                  /\ queue'[ChannelOf(n)] = <<task[n].message>> \o queue[ChannelOf(n)]
                  /\ Head(queue'[ChannelOf(n)]).retry_count = task[n].body.retry_count
                  /\ cb' = cb
                  /\ wk_hist'.sent = wk_hist.sent
                  /\ wk_hist'.fails = wk_hist.fails
                  /\ failed_queue' = failed_queue)]_vars

\* the push breaker is OPEN after failure_threshold failed sends, and the latest
\* handler of the message was refused by the gate: the message waits in
\* push.queue with the retry_count it had
C20_Witness ==
    /\ cb["push"].state = "open"
    /\ cb["push"].failure_count = failure_threshold
    /\ wk_hist.fails[1] = failure_threshold
    /\ ~wk_hist.last_failed[1]
    /\ task[1].pc = "none"
    /\ Len(queue["push"]) = 1
    /\ queue["push"][1].notification_id = 1
    /\ queue["push"][1].retry_count = wk_hist.last_rc[1]

\* C21: whatever the template lookup answers, the email worker goes on to the
\* send with a rendering, the template's or the default one; the step records
\* nothing on the breaker, leaves retry_count and the stored status as they are,
\* and neither requeues nor dead-letters the message.
C21_TemplateFallback ==
    [][\A n \in Ids :
          (task[n].pc = "render" /\ task'[n] # task[n])
              => (/\ task'[n].pc = "send"
                  /\ task'[n].rendered \in {"template", "default"}
                  /\ task'[n].body = task[n].body
                  /\ task'[n].message = task[n].message
                  /\ UNCHANGED <<cb, redis_store, queue, failed_queue, wk_hist>>)]_vars

\* an email rendered by default, after its template lookup failed, was sent at
\* the first attempt with no failure on the breaker, and is about to be reported
\* delivered
C21_Witness ==
    /\ task[1].pc = "update_delivered"
    /\ task[1].rendered = "default"
    /\ task[1].body.retry_count = 0
    /\ wk_hist.sent[1] = 1 /\ wk_hist.fails[1] = 0
    /\ cb["email"].failure_count = 0

\* C22: a status update of the worker, whether it is stored or fails, is followed
\* by the same handling of the message: after processing the breaker gate, after
\* delivered the acknowledgement, after failed the move to failed.queue; the
\* step itself leaves the breaker, the queues and the send counts alone.
C22_StatusFailureNotFatal ==
    [][\A n \in Ids :
          (/\ task[n].pc \in {"update_processing", "update_delivered",
                               "update_failed"}
           /\ task'[n] # task[n])
              => (/\ task'[n] =
                        IF task[n].pc = "update_processing"
                        THEN [task[n] EXCEPT !.pc = "can_proceed"]
                        ELSE IF task[n].pc = "update_delivered" THEN NoTask
                        ELSE [task[n] EXCEPT !.pc = "move_to_dlq"]
                  /\ UNCHANGED <<cb, queue, failed_queue, wk_hist>>)]_vars

\* an email whose two status updates both failed, the record still being the
\* pending one of the submit, was sent once and acknowledged
C22_Witness ==
    /\ req[1].ret = "queued" /\ req[1].type = "email"
    /\ gw_hist.created_by[1] = "submit"
    /\ redis_status[1] = "pending"
    /\ wk_hist.sent[1] = 1 /\ wk_hist.fails[1] = 0
    /\ task[1].pc = "none"
    /\ queue["email"] = <<>>
    /\ cb["email"].failure_count = 0

\* C23: the updated_at stored for a notification id never decreases, also when
\* status updates for the id overlap.
C23_UpdatedAtMonotonic ==
    [][\A n \in AllIds :
          redis_updated_at[n] # NoTime
              => redis_updated_at'[n] >= redis_updated_at[n]]_vars

\* C24: in CLOSED a recorded success sets failure_count to 0 and leaves the
\* breaker CLOSED, and a recorded failure opens the breaker exactly when it is
\* the failure_threshold-th failure since the latest recorded success: shorter
\* runs of failures, however many, leave it CLOSED.
C24_ClosedSuccessResets ==
    LET ch == last_call.ch IN
    last_call.pre.state = "closed"
        => (/\ last_call.op = "record_success"
               => (cb[ch].state = "closed" /\ cb[ch].failure_count = 0)
            /\ last_call.op = "record_failure"
               => (/\ cb[ch].state \in {"closed", "open"}
                   /\ cb[ch].state = "open" <=> fail_run[ch] >= failure_threshold)
            /\ last_call.op = "can_proceed" => cb[ch].state = "closed")

\* a success recorded in CLOSED one failure short of the threshold took
\* failure_count back to 0
C24_Witness ==
    /\ last_call.op = "record_success"
    /\ last_call.pre.state = "closed"
    /\ last_call.pre.failure_count = failure_threshold - 1
    /\ cb[last_call.ch].state = "closed"
    /\ cb[last_call.ch].failure_count = 0

\* C25: retries are bounded. The sink is invoked at most MAX_RETRIES + 1 times
\* for a notification, and a message goes back to its queue after a failed
\* attempt only when it carried retry_count < MAX_RETRIES.
C25_BoundedRetries ==
    \A n \in Ids :
        /\ wk_hist.sent[n] + wk_hist.fails[n] <= MAX_RETRIES + 1
        /\ task[n].pc = "backoff" => task[n].message.retry_count < MAX_RETRIES

\* C26: backoff. The wait before a failed message is requeued is
\* 2 * 2^retry_count seconds, and it is longer than the wait after the previous
\* failed attempt of the notification.
C26_Backoff ==
    \A n \in Ids :
        task[n].pc = "backoff"
            => (/\ task[n].wait = 2 * 2 ^ task[n].message.retry_count
                /\ wk_hist.last_wait[n] # 0 => task[n].wait > wk_hist.last_wait[n])

\* C27: order within a priority. Of two email notifications of equal priority,
\* the one enqueued first is the first to reach the sink: when send_email has
\* been called for the later one it has been called for the earlier one.
C27_FifoWithinPriority ==
    \A r1, r2 \in Reqs :
        (/\ req[r1].type = "email" /\ req[r2].type = "email"
         /\ req[r1].priority = req[r2].priority
         /\ req[r1].nid # 0 /\ req[r2].nid # 0
         /\ req[r1].nid < req[r2].nid
         /\ wk_hist.sent[req[r2].nid] + wk_hist.fails[req[r2].nid] > 0)
            => wk_hist.sent[req[r1].nid] + wk_hist.fails[req[r1].nid] > 0

\* C28: a duplicate submission has no side effect. The step that answers a
\* submission as a duplicate is its first step (no user lookup is made), and it
\* leaves the idempotency mapping, the status records, the queues, the id
\* counter and every other submission as they were.
C28_DuplicateNoEffect ==
    [][\A r \in Reqs :
          req'[r].ret = "duplicate" /\ req[r].ret # "duplicate"
              => (/\ req[r].pc = "idle"
                  /\ req'[r].pc = "done"
                  /\ \A o \in Reqs \ {r} : req'[o] = req[o]
                  /\ gw_hist'.mapped = gw_hist.mapped
                  /\ gw_hist'.expired = gw_hist.expired
                  /\ gw_hist'.published = gw_hist.published
                  /\ UNCHANGED <<redis_request, redis_store, queue, next_id>>)]_vars

\* a duplicate was answered while the notification had no status record (its
\* setex had failed): no record was made, and no second id minted
C28_Witness ==
    \E r1, r2 \in Reqs :
        /\ req[r1].ret = "500" /\ req[r2].ret = "duplicate"
        /\ req[r1].key = req[r2].key
        /\ redis_request[req[r2].key] = req[r2].nid
        /\ redis_status[req[r2].nid] = "none"
        /\ next_id = 2
        /\ gw_hist.published[req[r2].key] = 1

\* C29: the status a duplicate submission returns is the status that
\* get_notification_status returns for its notification id at that moment.
C29_DuplicateStatus ==
    [][\A r \in Reqs :
          req'[r].ret = "duplicate" /\ req[r].ret # "duplicate"
              => req'[r].status = get_notification_status(req'[r].nid)]_vars

\* C30: an OPEN period is bounded. A can_proceed call made on an OPEN breaker
\* recovery_timeout or more after the failure that opened it returns true,
\* whatever was recorded since the breaker opened.
C30_OpenBounded ==
    LET ch == last_call.ch IN
    (/\ last_call.op = "can_proceed"
     /\ last_call.pre.state = "open"
     /\ opened_at[ch] # NoTime
     /\ last_call.at - opened_at[ch] >= recovery_timeout)
        => last_call.ret = "True"

\* C31: the channels are gated independently. A call on the breaker of one
\* channel leaves the state and the counters of the other channel's breaker,
\* and what its can_proceed returns, as they were.
C31_ChannelsIndependent ==
    [][\A ch \in Channels :
          (last_call' # last_call /\ last_call'.ch # ch)
              => (/\ cb'[ch] = cb[ch]
                  /\ RetOf(cb'[ch], now') = RetOf(cb[ch], now))]_vars

\* the push breaker was opened by its fifth failure while the email breaker,
\* two failures into its run, stayed CLOSED
C31_Witness ==
    /\ last_call.ch = "push" /\ last_call.op = "record_failure"
    /\ last_call.pre.state = "closed"
    /\ cb["push"].state = "open"
    /\ cb["email"].state = "closed"
    /\ cb["email"].failure_count = 2

\* C32: a submission is answered 404 "User not found" only when the user
\* service reported the user absent, not when the lookup timed out or failed.
C32_NotFoundOnlyWhenAbsent ==
    \A r \in Reqs : req[r].ret = "404" => req[r].reply = "absent"

\* C33: no duplicate delivery. For every notification id the sink completes a
\* successful send at most once, also when the worker dies between the send and
\* the acknowledgement and the message is delivered again.
C33_NoDuplicateDelivery ==
    \A n \in Ids : wk_hist.sent[n] <= 1

\* C34: submissions without a caller-chosen idempotency key are distinct
\* requests. None of them is answered as a duplicate, and two that were answered
\* carry different notification ids.
C34_NoKeyDistinct ==
    \A r1, r2 \in Reqs :
        (/\ r1 # r2
         /\ req[r1].key \notin Keys /\ req[r2].key \notin Keys
         /\ req[r1].pc = "done" /\ req[r2].pc = "done")
            => (/\ req[r1].ret = "queued" /\ req[r2].ret = "queued"
                /\ req[r1].nid # req[r2].nid)

\* C35: no send is started on a channel whose breaker is OPEN with its recovery
\* timeout not elapsed: no step takes a message to its send then, whether it
\* comes from the gate or from the preparation that follows the gate.
C35_NoSendWhileOpen ==
    [][\A n \in Ids :
          (task[n].pc # "send" /\ task'[n].pc = "send")
              => ~(/\ cb[ChannelOf(n)].state = "open"
                   /\ ~timeout_elapsed(cb[ChannelOf(n)], now))]_vars

\* C36: no message is lost by a worker. A message that left its channel queue
\* for good, acknowledged or rejected without requeue, had its send succeed or
\* is in failed.queue; and a notification whose status is failed with no
\* message left in process has its message in failed.queue.
C36_NoMessageLost ==
    /\ \A n \in gone :
           \/ n \in Ids /\ wk_hist.sent[n] > 0
           \/ \E i \in 1..Len(failed_queue) : failed_queue[i].notification_id = n
    /\ \A n \in Ids :
           (redis_status[n] = "failed" /\ n \in gone)
               => \E i \in 1..Len(failed_queue) :
                      failed_queue[i].notification_id = n

\* C37: in every reachable state of the breaker, CLOSED implies
\* failure_count < failure_threshold.
C37_ClosedBelowThreshold ==
    \A ch \in Channels :
        cb[ch].state = "closed" => cb[ch].failure_count < failure_threshold

\* the breaker closed from HALF_OPEN with failure_threshold or more failures
\* counted, and failure_count went back to 0
C37_Witness ==
    /\ last_call.op = "record_success"
    /\ last_call.pre.state = "half_open"
    /\ last_call.pre.failure_count >= failure_threshold
    /\ cb[last_call.ch].state = "closed"
    /\ cb[last_call.ch].failure_count = 0

\* C38: in every reachable state of the breaker, OPEN implies that
\* last_failure_time is set, and no can_proceed call raised on an unset one.
C38_OpenHasFailureTime ==
    /\ \A ch \in Channels :
           cb[ch].state = "open" => cb[ch].last_failure_time # NoTime
    /\ last_call.ret # "TypeError"

\* can_proceed computed the elapsed time of an OPEN breaker, exactly
\* recovery_timeout, and admitted the call
C38_Witness ==
    /\ last_call.op = "can_proceed"
    /\ last_call.pre.state = "open"
    /\ last_call.pre.last_failure_time # NoTime
    /\ last_call.at - last_call.pre.last_failure_time = recovery_timeout
    /\ last_call.ret = "True"
    /\ cb[last_call.ch].state = "half_open"

====
